---- MODULE Spec2Model ----
(***************************************************************************)
(* RouteSim (routesom): the stepwise shortest-path engine (runDijkstra,    *)
(* runBellmanFord), the path reconstruction of App.tsx (shortestPathData)  *)
(* and the packet forwarding loop (updatePackets, handleSendTraffic), and  *)
(* the handlers of App.tsx that edit the topology and drive the playback.  *)
(* steps is 1-based here, so the displayed step is                         *)
(* steps[currentStepIndex + 1]. loops holds the animation loops that are   *)
(* live: each is the updatePackets closure of one render, with the         *)
(* graphData and algorithm it captured, and whether its first frame ran.   *)
(***************************************************************************)
EXTENDS Integers, Sequences, FiniteSets, TLC

VARIABLES graphData, algorithm, startNode, endNode, editMode, steps,
          currentStepIndex, isPlaying, packets, loops

vars == <<graphData, algorithm, startNode, endNode, editMode, steps,
          currentStepIndex, isPlaying, packets, loops>>

(***************************************************************************)
(* Program constants.                                                      *)
(***************************************************************************)
INFINITY == 9999

\* JavaScript null (previous[n] = null, nextHopId = null, currentEdgeId = null)
NULL == "null"

DIJKSTRA == "Dijkstra"
BELLMAN_FORD == "Bellman-Ford"
AlgorithmType == {DIJKSTRA, BELLMAN_FORD}

INITIAL_GRAPH ==
  [nodes |-> << [id |-> "A", active |-> TRUE], [id |-> "B", active |-> TRUE],
                [id |-> "C", active |-> TRUE], [id |-> "D", active |-> TRUE],
                [id |-> "E", active |-> TRUE], [id |-> "F", active |-> TRUE] >>,
   links |-> << [id |-> "AB", source |-> "A", target |-> "B", weight |-> 4,  active |-> TRUE],
                [id |-> "AC", source |-> "A", target |-> "C", weight |-> 2,  active |-> TRUE],
                [id |-> "BC", source |-> "B", target |-> "C", weight |-> 1,  active |-> TRUE],
                [id |-> "BD", source |-> "B", target |-> "D", weight |-> 5,  active |-> TRUE],
                [id |-> "CE", source |-> "C", target |-> "E", weight |-> 8,  active |-> TRUE],
                [id |-> "CD", source |-> "C", target |-> "D", weight |-> 10, active |-> TRUE],
                [id |-> "DE", source |-> "D", target |-> "E", weight |-> 2,  active |-> TRUE],
                [id |-> "DF", source |-> "D", target |-> "F", weight |-> 6,  active |-> TRUE],
                [id |-> "EF", source |-> "E", target |-> "F", weight |-> 3,  active |-> TRUE] >>]

(***************************************************************************)
(* Sequence helpers; Array.prototype.filter is SelectSeq.                   *)
(***************************************************************************)
Range(s) == {s[i] : i \in DOMAIN s}

Last(s) == s[Len(s)]

(***************************************************************************)
(* The algorithm engine.                                                   *)
(***************************************************************************)
\* data.nodes.filter(n => n.active).map(n => n.id), in the order of data.nodes
ActiveNodeSeq(data) ==
  LET act == SelectSeq(data.nodes, LAMBDA n : n.active)
  IN  [i \in DOMAIN act |-> act[i].id]

\* mutant: every node of the topology counts as active
activeNodeIds_AllNodes(data) == {data.nodes[i].id : i \in DOMAIN data.nodes}

\* new Set(nodes.map(n => n.id))
activeNodeIds(data) == Range(ActiveNodeSeq(data))

\* data.links.filter(l => l.active)
ActiveLinks(data) == SelectSeq(data.links, LAMBDA l : l.active)

\* the keys of distances / previous: one entry per node of data.nodes
NodeIds(data) == {data.nodes[i].id : i \in DOMAIN data.nodes}

\* data.nodes.forEach(node => { distances[node.id] = ...; previous[node.id] = null }):
\* one key per node id, a later node of the same id overwriting an earlier one
RECURSIVE InitDistancesFrom(_, _, _)
InitDistancesFrom(nodes, startNodeId, acc) ==
  IF nodes = <<>> THEN acc
  ELSE LET node == Head(nodes)
       IN  InitDistancesFrom(Tail(nodes), startNodeId,
             (node.id :> (IF node.id = startNodeId /\ node.active THEN 0 ELSE INFINITY)) @@ acc)

\* mutant: the start node gets distance 0 whether it is active or not
InitDistances_IgnoreActive(data, startNodeId) ==
  InitDistancesFrom([i \in DOMAIN data.nodes |-> [data.nodes[i] EXCEPT !.active = TRUE]],
                    startNodeId, <<>>)

InitDistances(data, startNodeId) == InitDistancesFrom(data.nodes, startNodeId, <<>>)

RECURSIVE InitPreviousFrom(_, _)
InitPreviousFrom(nodes, acc) ==
  IF nodes = <<>> THEN acc
  ELSE InitPreviousFrom(Tail(nodes), (Head(nodes).id :> NULL) @@ acc)

InitPrevious(data) == InitPreviousFrom(data.nodes, <<>>)

\* one SimulationStep; the description text is kept as its kind
Step(idx, kind, dist, prev, actNodes, actLinks, visited) ==
  [stepIndex |-> idx, description |-> kind, distances |-> dist, previous |-> prev,
   activeNodes |-> actNodes, activeLinks |-> actLinks, visitedNodes |-> visited]

\* mutant: the first unvisited node below INFINITY is taken, not the nearest
RECURSIVE SelectMin_FirstReachable(_, _, _, _)
SelectMin_FirstReachable(unvisited, dist, currentId, minDist) ==
  IF unvisited = <<>> THEN currentId
  ELSE IF dist[Head(unvisited)] < minDist THEN Head(unvisited)
       ELSE SelectMin_FirstReachable(Tail(unvisited), dist, currentId, minDist)

\* unvisited.forEach(id => { if (distances[id] < minDist) {...} }): the first
\* id, in insertion order, of minimum distance below INFINITY; NULL if none
RECURSIVE SelectMin(_, _, _, _)
SelectMin(unvisited, dist, currentId, minDist) ==
  IF unvisited = <<>> THEN currentId
  ELSE IF dist[Head(unvisited)] < minDist
       THEN SelectMin(Tail(unvisited), dist, Head(unvisited), dist[Head(unvisited)])
       ELSE SelectMin(Tail(unvisited), dist, currentId, minDist)

\* mutant: a candidate of equal cost replaces the stored one
Improves_OrEqual(alt, currentDist) == alt <= currentDist

\* strict comparison of a candidate distance against the stored one
Improves(alt, currentDist) == alt < currentDist

\* for (const link of neighbors) { ... }: st is the loop state
RECURSIVE RelaxNeighbors(_, _, _, _)
RelaxNeighbors(neighbors, currentId, active, st) ==
  IF neighbors = <<>> THEN st
  ELSE
    LET link == Head(neighbors)
        neighborId == IF link.source = currentId THEN link.target ELSE link.source
    IN  IF neighborId \notin active \/ neighborId \in Range(st.visited)
        THEN RelaxNeighbors(Tail(neighbors), currentId, active, st)
        ELSE
          LET alt == st.distances[currentId] + link.weight
          IN  IF Improves(alt, st.distances[neighborId])
              THEN
                LET d2 == [st.distances EXCEPT ![neighborId] = alt]
                    p2 == [st.previous EXCEPT ![neighborId] = currentId]
                    s2 == Append(st.steps,
                                 Step(Len(st.steps), "relax", d2, p2,
                                      <<currentId, neighborId>>, <<link.id>>, st.visited))
                IN  RelaxNeighbors(Tail(neighbors), currentId, active,
                                   [st EXCEPT !.distances = d2, !.previous = p2, !.steps = s2])
              ELSE RelaxNeighbors(Tail(neighbors), currentId, active, st)

\* while (unvisited.size > 0) { ... }
RECURSIVE DijkstraLoop(_, _, _)
DijkstraLoop(links, active, st) ==
  IF st.unvisited = <<>> THEN st
  ELSE
    LET currentId == SelectMin(st.unvisited, st.distances, NULL, INFINITY)
    IN  IF currentId = NULL \/ st.distances[currentId] = INFINITY THEN st
        ELSE
          LET unv2 == SelectSeq(st.unvisited, LAMBDA id : id # currentId)
              vis2 == Append(st.visited, currentId)
              s2   == Append(st.steps,
                             Step(Len(st.steps), "select", st.distances, st.previous,
                                  <<currentId>>, <<>>, vis2))
              neighbors == SelectSeq(links, LAMBDA l : l.source = currentId \/ l.target = currentId)
              st2  == [st EXCEPT !.unvisited = unv2, !.visited = vis2, !.steps = s2]
          IN  DijkstraLoop(links, active, RelaxNeighbors(neighbors, currentId, active, st2))

\* mutant: the complete step is emitted without the visited set
runDijkstra_NoFinalVisited(data, startNodeId) ==
  LET links == ActiveLinks(data)
      active == activeNodeIds(data)
      dist0 == InitDistances(data, startNodeId)
      prev0 == InitPrevious(data)
  IN  IF startNodeId \notin active
      THEN << Step(0, "failed", dist0, prev0, <<>>, <<>>, <<>>) >>
      ELSE
        LET st0 == [distances |-> dist0, previous |-> prev0, visited |-> <<>>,
                    unvisited |-> ActiveNodeSeq(data),
                    steps |-> << Step(0, "init", dist0, prev0, <<startNodeId>>, <<>>, <<>>) >>]
            fin == DijkstraLoop(links, active, st0)
        IN  Append(fin.steps,
                   Step(Len(fin.steps), "complete", fin.distances, fin.previous,
                        <<>>, <<>>, <<>>))

runDijkstra(data, startNodeId) ==
  LET links == ActiveLinks(data)
      active == activeNodeIds(data)
      dist0 == InitDistances(data, startNodeId)
      prev0 == InitPrevious(data)
  IN  IF startNodeId \notin active
      THEN << Step(0, "failed", dist0, prev0, <<>>, <<>>, <<>>) >>
      ELSE
        LET st0 == [distances |-> dist0, previous |-> prev0, visited |-> <<>>,
                    unvisited |-> ActiveNodeSeq(data),
                    steps |-> << Step(0, "init", dist0, prev0, <<startNodeId>>, <<>>, <<>>) >>]
            fin == DijkstraLoop(links, active, st0)
        IN  Append(fin.steps,
                   Step(Len(fin.steps), "complete", fin.distances, fin.previous,
                        <<>>, <<>>, fin.visited))

\* for (const edge of edgesToCheck) { ... }: both directions of one link
RECURSIVE RelaxEdges(_, _, _, _)
RelaxEdges(edgesToCheck, link, iter, st) ==
  IF edgesToCheck = <<>> THEN st
  ELSE
    LET edge == Head(edgesToCheck)
    IN  IF st.distances[edge.from] # INFINITY
           /\ Improves(st.distances[edge.from] + link.weight, st.distances[edge.to])
        THEN
          LET d2 == [st.distances EXCEPT ![edge.to] = st.distances[edge.from] + link.weight]
              p2 == [st.previous EXCEPT ![edge.to] = edge.from]
              s2 == Append(st.steps,
                           Step(Len(st.steps), "relax", d2, p2,
                                <<edge.from, edge.to>>, <<link.id>>, <<>>))
          IN  RelaxEdges(Tail(edgesToCheck), link, iter,
                         [st EXCEPT !.distances = d2, !.previous = p2, !.steps = s2,
                                    !.somethingChanged = TRUE])
        ELSE RelaxEdges(Tail(edgesToCheck), link, iter, st)

\* for (const link of links) { ... }: one pass over the active links
RECURSIVE RelaxAllLinks(_, _, _, _)
RelaxAllLinks(links, active, iter, st) ==
  IF links = <<>> THEN st
  ELSE
    LET link == Head(links)
        u == link.source
        v == link.target
    IN  IF u \notin active \/ v \notin active
        THEN RelaxAllLinks(Tail(links), active, iter, st)
        ELSE RelaxAllLinks(Tail(links), active, iter,
                           RelaxEdges(<< [from |-> u, to |-> v], [from |-> v, to |-> u] >>,
                                      link, iter, st))

\* mutant: one pass too few
MaxPasses_OneLess(V) == V - 2

\* the number of passes the outer loop may make: i < V - 1
MaxPasses(V) == V - 1

\* for (let i = 0; i < V - 1; i++) { ... }
RECURSIVE BellmanFordLoop(_, _, _, _, _)
BellmanFordLoop(links, active, i, V, st) ==
  IF ~(i < MaxPasses(V)) THEN st
  ELSE
    LET st1 == RelaxAllLinks(links, active, i, [st EXCEPT !.somethingChanged = FALSE])
    IN  IF ~st1.somethingChanged
        THEN [st1 EXCEPT !.steps =
                Append(st1.steps,
                       Step(Len(st1.steps), "converged", st1.distances, st1.previous,
                            <<>>, <<>>, <<>>))]
        ELSE BellmanFordLoop(links, active, i + 1, V, st1)

runBellmanFord(data, startNodeId) ==
  LET links == ActiveLinks(data)
      active == activeNodeIds(data)
      dist0 == InitDistances(data, startNodeId)
      prev0 == InitPrevious(data)
  IN  IF startNodeId \notin active
      THEN << Step(0, "failed", dist0, prev0, <<>>, <<>>, <<>>) >>
      ELSE
        LET st0 == [distances |-> dist0, previous |-> prev0, somethingChanged |-> FALSE,
                    steps |-> << Step(0, "init", dist0, prev0, <<startNodeId>>, <<>>, <<>>) >>]
            fin == BellmanFordLoop(links, active, 0, Len(ActiveNodeSeq(data)), st0)
        IN  Append(fin.steps,
                   Step(Len(fin.steps), "complete", fin.distances, fin.previous,
                        <<>>, <<>>, <<>>))

runAlgorithm(type, data, startNodeId) ==
  IF type = DIJKSTRA THEN runDijkstra(data, startNodeId)
  ELSE runBellmanFord(data, startNodeId)

(***************************************************************************)
(* Path reconstruction (App.tsx, shortestPathData).                        *)
(***************************************************************************)
\* links.find(l => (s === a && t === b) || (s === b && t === a)): the index
\* of the first link joining a and b, active or not; 0 when find gives undefined
FindLink(links, a, b) ==
  LET hits == {i \in DOMAIN links :
                 \/ links[i].source = a /\ links[i].target = b
                 \/ links[i].source = b /\ links[i].target = a}
  IN  IF hits = {} THEN 0 ELSE CHOOSE i \in hits : \A j \in hits : i <= j

\* mutant: the link id is put in front, as the node is
PushLink_Unshift(pathIds, linkId) == <<linkId>> \o pathIds

\* pathIds.push(link.id)
PushLink(pathIds, linkId) == Append(pathIds, linkId)

\* while (curr !== startNode && safety < graphData.nodes.length) { ... }
RECURSIVE WalkBack(_, _, _, _)
WalkBack(data, prevMap, startNodeId, w) ==
  IF w.curr = startNodeId \/ ~(w.safety < Len(data.nodes)) THEN w
  ELSE
    LET prev == prevMap[w.curr]
    IN  IF prev = NULL THEN w
        ELSE
          LET li == FindLink(data.links, prev, w.curr)
          IN  WalkBack(data, prevMap, startNodeId,
                       [curr |-> prev,
                        pathIds |-> IF li # 0 THEN PushLink(w.pathIds, data.links[li].id)
                                    ELSE w.pathIds,
                        nodePath |-> <<prev>> \o w.nodePath,
                        safety |-> w.safety + 1])

\* the useMemo body, for the step on display; hasStep is false when
\* steps[currentStepIndex] is undefined. kind "none" is the empty result,
\* kind "unreachable" the result with cost '∞' and pathString 'Unreachable',
\* nodePath is the array that pathString joins
reconstruct(hasStep, step, startNodeId, endNodeId, data) ==
  IF endNodeId = NULL \/ ~hasStep
  THEN [kind |-> "none", cost |-> 0, pathIds |-> <<>>, nodePath |-> <<>>]
  ELSE IF endNodeId \notin DOMAIN step.distances \/ step.distances[endNodeId] >= INFINITY
  THEN [kind |-> "unreachable", cost |-> INFINITY, pathIds |-> <<>>, nodePath |-> <<>>]
  ELSE
    LET w == WalkBack(data, step.previous, startNodeId,
                      [curr |-> endNodeId, pathIds |-> <<>>,
                       nodePath |-> <<endNodeId>>, safety |-> 0])
    IN  [kind |-> "path", cost |-> step.distances[endNodeId],
         pathIds |-> w.pathIds, nodePath |-> w.nodePath]

(***************************************************************************)
(* The packet forwarding loop (App.tsx, updatePackets, handleSendTraffic). *)
(* progress and speed * delta are counted in units of 1 / ProgressUnits.   *)
(***************************************************************************)
ProgressUnits == 2

\* the loop bound of handleSendTraffic: for (let i = 0; i < 5; i++)
SpawnCount == 5

\* mutant: the walk stops at the node without predecessor only
RECURSIVE PathBack_ToRoot(_, _, _, _)
PathBack_ToRoot(prevMap, curr, fromId, path) ==
  IF curr = NULL THEN path
  ELSE PathBack_ToRoot(prevMap, prevMap[curr], fromId, Append(path, curr))

\* while (curr && curr !== fromId) { path.push(curr); curr = previous[curr] }
RECURSIVE PathBack(_, _, _, _)
PathBack(prevMap, curr, fromId, path) ==
  IF curr = NULL \/ curr = fromId THEN path
  ELSE PathBack(prevMap, prevMap[curr], fromId, Append(path, curr))

\* link && link.active, for the link found at index li (0: none found)
LinkUsable(links, li) == li # 0 /\ links[li].active

\* the decision taken when p arrives at p.nextHopId (newProgress >= 1)
Arrive(p, type, data) ==
  LET arrivedNodeId == p.nextHopId
  IN  IF arrivedNodeId = p.targetId
      THEN [p EXCEPT !.progress = ProgressUnits, !.status = "delivered",
                     !.currentEdgeId = NULL, !.currentNodeId = arrivedNodeId]
      ELSE
        LET convergedStep == Last(runAlgorithm(type, data, arrivedNodeId))
        IN  IF convergedStep.distances[p.targetId] >= INFINITY
            THEN [p EXCEPT !.status = "lost", !.progress = ProgressUnits]
            ELSE
              LET path == PathBack(convergedStep.previous, p.targetId, arrivedNodeId, <<>>)
              IN  IF Len(path) = 0 THEN [p EXCEPT !.status = "lost"]
                  ELSE
                    LET nextHop == path[Len(path)]
                        li == FindLink(data.links, arrivedNodeId, nextHop)
                    IN  IF LinkUsable(data.links, li)
                        THEN [p EXCEPT !.currentNodeId = arrivedNodeId, !.nextHopId = nextHop,
                                       !.currentEdgeId = data.links[li].id, !.progress = 0]
                        ELSE [p EXCEPT !.status = "lost"]

\* mutant: a packet exactly at the end of its link has not arrived
Arrived_Strictly(newProgress) == newProgress > ProgressUnits

\* newProgress >= 1
Arrived(newProgress) == newProgress >= ProgressUnits

\* mutant: a packet that arrives carries the rest of its progress onto the
\* next link
UpdatePacket_CarriesRemainder(p, delta, type, data) ==
  IF p.status # "moving" THEN p
  ELSE LET newProgress == p.progress + p.speed * delta
           q == Arrive(p, type, data)
       IN  IF ~Arrived(newProgress) THEN [p EXCEPT !.progress = newProgress]
           ELSE IF q.status = "moving" /\ q.currentNodeId # p.currentNodeId
                THEN [q EXCEPT !.progress = newProgress - ProgressUnits]
                ELSE q

\* the callback of prevPackets.map: one packet, delta seconds later
UpdatePacket(p, delta, type, data) ==
  IF p.status # "moving" THEN p
  ELSE LET newProgress == p.progress + p.speed * delta
       IN  IF Arrived(newProgress) THEN Arrive(p, type, data)
           ELSE [p EXCEPT !.progress = newProgress]

\* prevPackets.map(...) of one animation frame, before the filter
MapPackets(prevPackets, delta, type, data) ==
  [i \in DOMAIN prevPackets |-> UpdatePacket(prevPackets[i], delta, type, data)]

\* mutant: the packets that ended stay in the set
TickPackets_NoFilter(prevPackets, delta, type, data) ==
  IF Len(prevPackets) = 0 THEN <<>>
  ELSE MapPackets(prevPackets, delta, type, data)

\* setPackets(prev => prev.length === 0 ? [] : prev.map(...).filter(moving))
TickPackets(prevPackets, delta, type, data) ==
  IF Len(prevPackets) = 0 THEN <<>>
  ELSE SelectSeq(MapPackets(prevPackets, delta, type, data), LAMBDA q : q.status = "moving")

\* Math.random().toString(36): an id no packet of the set has
FreshId(existing) ==
  LET used == {existing[i].id : i \in DOMAIN existing}
  IN  CHOOSE n \in 1..(Len(existing) + 1) : n \notin used

\* mutant: a target at the sentinel itself is taken as reachable
Attempt_BelowSentinelOnly(d, activeNodes, type, data, newPackets, prevPackets) ==
  LET src == activeNodes[d.srcIndex]
      tgt == activeNodes[d.tgtIndex]
      converged == Last(runAlgorithm(type, data, src.id))
  IN  IF converged.distances[tgt.id] > INFINITY THEN <<>>
      ELSE
        LET path == PathBack(converged.previous, tgt.id, src.id, <<>>)
            nextHop == IF Len(path) > 0 THEN path[Len(path)] ELSE NULL
            li == FindLink(data.links, src.id, nextHop)
        IN  IF li # 0 /\ nextHop # NULL
            THEN << [id |-> FreshId(prevPackets \o newPackets),
                     sourceId |-> src.id, targetId |-> tgt.id,
                     currentEdgeId |-> data.links[li].id, currentNodeId |-> src.id,
                     nextHopId |-> nextHop, progress |-> 0, speed |-> d.speed,
                     status |-> "moving"] >>
            ELSE <<>>

\* one pass of the loop of handleSendTraffic with the random draws d (source
\* index, target index, speed): the packet to add, as a sequence of 0 or 1
Attempt(d, activeNodes, type, data, newPackets, prevPackets) ==
  LET src == activeNodes[d.srcIndex]
      tgt == activeNodes[d.tgtIndex]
      converged == Last(runAlgorithm(type, data, src.id))
  IN  IF converged.distances[tgt.id] >= INFINITY THEN <<>>
      ELSE
        LET path == PathBack(converged.previous, tgt.id, src.id, <<>>)
            nextHop == IF Len(path) > 0 THEN path[Len(path)] ELSE NULL
            li == FindLink(data.links, src.id, nextHop)
        IN  IF li # 0 /\ nextHop # NULL
            THEN << [id |-> FreshId(prevPackets \o newPackets),
                     sourceId |-> src.id, targetId |-> tgt.id,
                     currentEdgeId |-> data.links[li].id, currentNodeId |-> src.id,
                     nextHopId |-> nextHop, progress |-> 0, speed |-> d.speed,
                     status |-> "moving"] >>
            ELSE <<>>

\* for (let i = 0; i < 5; i++) { ... } over the draws of the five passes
RECURSIVE SpawnLoop(_, _, _, _, _, _)
SpawnLoop(draws, activeNodes, type, data, newPackets, prevPackets) ==
  IF draws = <<>> THEN newPackets
  ELSE SpawnLoop(Tail(draws), activeNodes, type, data,
                 newPackets \o Attempt(Head(draws), activeNodes, type, data,
                                       newPackets, prevPackets),
                 prevPackets)

(***************************************************************************)
(* The effects and handlers of App.tsx. A state update and the effects     *)
(* React runs for it are one step.                                         *)
(***************************************************************************)
\* useEffect(..., [graphData, algorithm, startNode]): the new trace, and the
\* index clamped when it is beyond it; idx is the index the handler left
Rerun(type, data, start, idx) ==
  LET newSteps == runAlgorithm(type, data, start)
  IN  [steps |-> newSteps,
       index |-> IF idx >= Len(newSteps) THEN Len(newSteps) - 1 ELSE idx]

RunEffect(idx) ==
  LET r == Rerun(algorithm', graphData', startNode', idx)
  IN  steps' = r.steps /\ currentStepIndex' = r.index

\* useEffect(..., [graphData, algorithm]): the cleanup cancels the frame the
\* effect requested, which ends that loop only if the frame has not run yet
\* (a loop that ran requests its next frames itself); then the updatePackets
\* of the new render is requested
Rebind(ls, data, type) ==
  SelectSeq(ls, LAMBDA l : l.started)
    \o << [graphData |-> data, algorithm |-> type, started |-> FALSE] >>

FrameEffect == loops' = Rebind(loops, graphData', algorithm')

ToggleNode(nodes, nodeId) ==
  [i \in DOMAIN nodes |->
     IF nodes[i].id = nodeId THEN [nodes[i] EXCEPT !.active = ~nodes[i].active]
     ELSE nodes[i]]

handleNodeClick(nodeId, isShift) ==
  IF editMode
  THEN /\ graphData' = [graphData EXCEPT !.nodes = ToggleNode(graphData.nodes, nodeId)]
       /\ UNCHANGED <<algorithm, startNode, endNode, editMode, isPlaying, packets>>
       /\ RunEffect(currentStepIndex)
       /\ FrameEffect
  ELSE IF isShift
       THEN /\ endNode' = IF endNode = nodeId THEN NULL ELSE nodeId
            /\ UNCHANGED <<graphData, algorithm, startNode, editMode, steps,
                           currentStepIndex, isPlaying, packets, loops>>
       ELSE /\ startNode' = nodeId
            /\ isPlaying' = FALSE
            /\ endNode' = IF nodeId = endNode THEN NULL ELSE endNode
            /\ UNCHANGED <<graphData, algorithm, editMode, packets, loops>>
            /\ IF nodeId # startNode
               THEN RunEffect(0)
               ELSE currentStepIndex' = 0 /\ UNCHANGED steps

(***************************************************************************)
(* parseInt of a prompt text, given as its sequence of characters (no 0x   *)
(* prefix among the inputs): leading blanks, an optional sign, then the    *)
(* digits up to the first other character; NaN when there is no digit.     *)
(***************************************************************************)
DigitChars == <<"0", "1", "2", "3", "4", "5", "6", "7", "8", "9">>

IsDigit(c) == \E i \in DOMAIN DigitChars : DigitChars[i] = c

DigitValue(c) == (CHOOSE i \in DOMAIN DigitChars : DigitChars[i] = c) - 1

RECURSIVE SkipBlanks(_)
SkipBlanks(str) ==
  IF str # <<>> /\ Head(str) = " " THEN SkipBlanks(Tail(str)) ELSE str

\* the value of the leading digits of str after acc, with their count seen
RECURSIVE ParseDigits(_, _, _)
ParseDigits(str, acc, seen) ==
  IF str = <<>> \/ ~IsDigit(Head(str)) THEN [isNaN |-> seen = 0, value |-> acc]
  ELSE ParseDigits(Tail(str), 10 * acc + DigitValue(Head(str)), seen + 1)

parseInt(str) ==
  LET t == SkipBlanks(str)
      signed == t # <<>> /\ Head(t) \in {"-", "+"}
      r == ParseDigits(IF signed THEN Tail(t) ELSE t, 0, 0)
  IN  IF signed /\ Head(t) = "-" THEN [r EXCEPT !.value = 0 - r.value] ELSE r

\* mutant: a weight of zero is accepted
WeightAccepted_NonNegative(parsed) == ~parsed.isNaN /\ parsed.value >= 0

\* !isNaN(newWeight) && newWeight > 0
WeightAccepted(parsed) == ~parsed.isNaN /\ parsed.value > 0

SetWeight(links, linkId, newWeight) ==
  [i \in DOMAIN links |->
     IF links[i].id = linkId THEN [links[i] EXCEPT !.weight = newWeight] ELSE links[i]]

\* answer: what prompt returned, cancelled (null) or the text typed
handleLinkClick(linkId, answer) ==
  IF /\ editMode
     /\ \E i \in DOMAIN graphData.links : graphData.links[i].id = linkId
     /\ ~answer.cancelled
     /\ WeightAccepted(parseInt(answer.text))
  THEN /\ graphData' = [graphData EXCEPT
                          !.links = SetWeight(graphData.links, linkId,
                                              parseInt(answer.text).value)]
       /\ UNCHANGED <<algorithm, startNode, endNode, editMode, isPlaying, packets>>
       /\ RunEffect(currentStepIndex)
       /\ FrameEffect
  ELSE UNCHANGED vars

\* newGraph.nodes.map(n => ({...n, active: true})), and the same for links
AllActive(elems) == [i \in DOMAIN elems |-> [elems[i] EXCEPT !.active = TRUE]]

\* generated: what generateTopology resolved to, null or a graph
handleGenerateTopology(generated) ==
  IF generated.isNull THEN UNCHANGED vars
  ELSE
    /\ graphData' = [nodes |-> AllActive(generated.graph.nodes),
                     links |-> AllActive(generated.graph.links)]
    /\ IF Len(generated.graph.nodes) > 0
       THEN startNode' = generated.graph.nodes[1].id /\ endNode' = NULL
       ELSE UNCHANGED <<startNode, endNode>>
    /\ packets' = <<>>
    /\ UNCHANGED <<algorithm, editMode, isPlaying>>
    /\ RunEffect(currentStepIndex)
    /\ FrameEffect

onAlgorithmChange(type) ==
  /\ algorithm' = type
  /\ UNCHANGED <<graphData, startNode, endNode, editMode, isPlaying, packets>>
  /\ IF type # algorithm
     THEN RunEffect(currentStepIndex) /\ FrameEffect
     ELSE UNCHANGED <<steps, currentStepIndex, loops>>

onToggleEditMode ==
  /\ editMode' = ~editMode
  /\ UNCHANGED <<graphData, algorithm, startNode, endNode, steps, currentStepIndex,
                 isPlaying, packets, loops>>

onPlayPause ==
  /\ isPlaying' = ~isPlaying
  /\ UNCHANGED <<graphData, algorithm, startNode, endNode, editMode, steps,
                 currentStepIndex, packets, loops>>

onNext ==
  /\ currentStepIndex' =
       IF currentStepIndex < Len(steps) - 1 THEN currentStepIndex + 1 ELSE currentStepIndex
  /\ UNCHANGED <<graphData, algorithm, startNode, endNode, editMode, steps,
                 isPlaying, packets, loops>>

onPrev ==
  /\ currentStepIndex' =
       IF currentStepIndex > 0 THEN currentStepIndex - 1 ELSE currentStepIndex
  /\ UNCHANGED <<graphData, algorithm, startNode, endNode, editMode, steps,
                 isPlaying, packets, loops>>

onReset ==
  /\ currentStepIndex' = 0
  /\ isPlaying' = FALSE
  /\ UNCHANGED <<graphData, algorithm, startNode, endNode, editMode, steps,
                 packets, loops>>

\* mutant: the timer stops one step early
TimerAdvances_StopEarly(prev, length) == prev < length - 2

\* prev < steps.length - 1
TimerAdvances(prev, length) == prev < length - 1

\* one firing of the interval, which exists while isPlaying
PlaybackTimer ==
  /\ isPlaying
  /\ IF TimerAdvances(currentStepIndex, Len(steps))
     THEN currentStepIndex' = currentStepIndex + 1 /\ UNCHANGED isPlaying
     ELSE isPlaying' = FALSE /\ UNCHANGED currentStepIndex
  /\ UNCHANGED <<graphData, algorithm, startNode, endNode, editMode, steps,
                 packets, loops>>

(***************************************************************************)
(* Bounded inputs of the engine: four nodes joined by the five links of    *)
(* LinkEnds (a diamond A-B-D-C-A with the side A-B doubled, two links      *)
(* written target first), the weight of C-D 1 and every other weight in   *)
(* 1..MaxWeight or BigWeight (a weight above INFINITY, which the weight    *)
(* prompt accepts), and                                                    *)
(* INITIAL_GRAPH; in each at most MaxInactive nodes and links inactive.    *)
(***************************************************************************)
MaxWeight == 2
BigWeight == 10000
MaxInactive == 1

NodeNames == <<"A", "B", "C", "D">>
LinkEnds == << <<"A", "B">>, <<"B", "A">>, <<"D", "B">>, <<"C", "D">>, <<"A", "C">> >>
LinkNames == <<"L1", "L2", "L3", "L4", "L5">>
UnknownNode == "Z"

Weights == (1..MaxWeight) \cup {BigWeight}

Diamond(w) ==
  [nodes |-> [i \in DOMAIN NodeNames |-> [id |-> NodeNames[i], active |-> TRUE]],
   links |-> [i \in DOMAIN LinkEnds |->
                [id |-> LinkNames[i], source |-> LinkEnds[i][1], target |-> LinkEnds[i][2],
                 weight |-> w[i], active |-> TRUE]]]

\* data with the nodes and links named in off switched off
WithFailures(data, off) ==
  [nodes |-> [i \in DOMAIN data.nodes |->
                [data.nodes[i] EXCEPT !.active = data.nodes[i].id \notin off]],
   links |-> [i \in DOMAIN data.links |->
                [data.links[i] EXCEPT !.active = data.links[i].id \notin off]]]

ElementIds(data) ==
  {data.nodes[i].id : i \in DOMAIN data.nodes} \cup {data.links[i].id : i \in DOMAIN data.links}

\* the link C-D keeps weight 1, the other four take every weight
WeightChoices == {w \in [DOMAIN LinkEnds -> Weights] : w[4] = 1}

FailureSets(data) == {o \in SUBSET ElementIds(data) : Cardinality(o) <= MaxInactive}

(***************************************************************************)
(* SpecEngine: the engine applied to every bounded input.                  *)
(***************************************************************************)
InitEngine ==
  /\ \/ \E w \in WeightChoices : \E off \in FailureSets(Diamond(w)) :
          graphData = WithFailures(Diamond(w), off)
     \/ \E off \in FailureSets(INITIAL_GRAPH) :
          graphData = WithFailures(INITIAL_GRAPH, off)
  /\ algorithm \in AlgorithmType
  /\ startNode \in NodeIds(graphData) \cup {UnknownNode}
  /\ steps = <<>>
  /\ packets = <<>>
  /\ endNode = NULL
  /\ editMode = FALSE
  /\ currentStepIndex = 0
  /\ isPlaying = FALSE
  /\ loops = <<>>

\* the effect of App.tsx: setSteps(runAlgorithm(algorithm, graphData, startNode))
RunAlgorithm ==
  /\ steps = <<>>
  /\ steps' = runAlgorithm(algorithm, graphData, startNode)
  /\ UNCHANGED <<graphData, algorithm, startNode, endNode, editMode,
                 currentStepIndex, isPlaying, packets, loops>>

NextEngine == RunAlgorithm

SpecEngine == InitEngine /\ [][NextEngine]_vars

(***************************************************************************)
(* SpecTraffic: packets over a diamond topology whose links fail and       *)
(* recover, from the state in which the diamond was generated, with the    *)
(* algorithm of the mount state (Dijkstra). The frame arrives              *)
(* with delta in 0..MaxDelta seconds; a traffic request is accepted while  *)
(* the packet set stays within MaxPackets; the random draws of one request *)
(* take at most two values; at most MaxInactive of the links that fail are *)
(* down and at most MaxLoops animation loops are live.                     *)
(***************************************************************************)
MaxDelta == 2
MaxPackets == 5
MaxLoops == 2

\* speed = 0.5 + Math.random() * 0.5, in progress units per second
Speeds == {v \in 1..(ProgressUnits - 1) : 2 * v >= ProgressUnits}

Draws(n) ==
  { [srcIndex |-> i, tgtIndex |-> j, speed |-> v] :
      i \in 1..n, j \in 1..n, v \in Speeds } \ 
  { [srcIndex |-> i, tgtIndex |-> i, speed |-> v] : i \in 1..n, v \in Speeds }

\* the first two attempts draw one source, target and speed; the later ones
\* draw the same source and speed and a target of their own
DrawSeqs(n) ==
  { [i \in 1..SpawnCount |-> IF i <= 2 THEN pair[1] ELSE pair[2]] :
      pair \in { q \in Draws(n) \X Draws(n) :
                   q[1].speed = q[2].speed /\ q[1].srcIndex = q[2].srcIndex } }

UnitWeights == [i \in DOMAIN LinkEnds |-> 1]

InactiveCount(data) ==
  Cardinality({i \in DOMAIN data.nodes : ~data.nodes[i].active})
    + Cardinality({i \in DOMAIN data.links : ~data.links[i].active})

InitTraffic ==
  /\ graphData = Diamond(UnitWeights)
  /\ algorithm = DIJKSTRA
  /\ startNode = "A"
  /\ endNode = NULL
  /\ editMode = FALSE
  /\ steps = runAlgorithm(algorithm, graphData, startNode)
  /\ currentStepIndex = 0
  /\ isPlaying = FALSE
  /\ packets = <<>>
  /\ loops = << [graphData |-> graphData, algorithm |-> algorithm, started |-> FALSE] >>

\* setLinkActive(id, bool): the failure or the repair of one link
SetLinkActive(linkId, on) ==
  /\ \E i \in DOMAIN graphData.links :
        /\ graphData.links[i].id = linkId
        /\ graphData.links[i].active # on
  /\ graphData' =
       [graphData EXCEPT !.links =
          [i \in DOMAIN graphData.links |->
             IF graphData.links[i].id = linkId
             THEN [graphData.links[i] EXCEPT !.active = on]
             ELSE graphData.links[i]]]
  /\ Cardinality({i \in DOMAIN graphData'.links : ~graphData'.links[i].active}) <= MaxInactive
  /\ UNCHANGED <<algorithm, startNode, endNode, editMode, isPlaying, packets>>
  /\ RunEffect(currentStepIndex)
  /\ FrameEffect

handleSendTraffic ==
  LET activeNodes == SelectSeq(graphData.nodes, LAMBDA n : n.active)
  IN  /\ Len(packets) + SpawnCount <= MaxPackets
      /\ IF Len(activeNodes) < 2
         THEN UNCHANGED packets
         ELSE \E draws \in DrawSeqs(Len(activeNodes)) :
                 packets' = packets \o SpawnLoop(draws, activeNodes, algorithm, graphData,
                                                 <<>>, packets)
      /\ UNCHANGED <<graphData, algorithm, startNode, endNode, editMode, steps,
                     currentStepIndex, isPlaying, loops>>

\* the updatePackets callbacks of one frame, run in the order they were
\* requested; they get the same timestamp, so lastPacketUpdate leaves the
\* elapsed time 0 to every callback after the first
RECURSIVE RunCallbacks(_, _, _)
RunCallbacks(ls, delta, prevPackets) ==
  IF ls = <<>> THEN prevPackets
  ELSE RunCallbacks(Tail(ls), 0,
                    TickPackets(prevPackets, delta, Head(ls).algorithm, Head(ls).graphData))

\* the elapsed time of a frame; 0 for the first frame ever (lastPacketUpdate
\* is still 0 and is set to the timestamp)
Deltas == IF \E i \in DOMAIN loops : loops[i].started THEN 0..MaxDelta ELSE {0}

\* mutant: the frame writes the links back with their flags set
updatePackets_WritesLinks ==
  /\ \E delta \in Deltas : packets' = RunCallbacks(loops, delta, packets)
  /\ loops' = [i \in DOMAIN loops |-> [loops[i] EXCEPT !.started = TRUE]]
  /\ graphData' = [graphData EXCEPT !.links = AllActive(graphData.links)]
  /\ UNCHANGED <<algorithm, startNode, endNode, editMode, steps,
                 currentStepIndex, isPlaying>>

\* one animation frame: every live loop runs and requests its next frame
updatePackets ==
  /\ \E delta \in Deltas : packets' = RunCallbacks(loops, delta, packets)
  /\ loops' = [i \in DOMAIN loops |-> [loops[i] EXCEPT !.started = TRUE]]
  /\ UNCHANGED <<graphData, algorithm, startNode, endNode, editMode, steps,
                 currentStepIndex, isPlaying>>

\* the bounds of SpecTraffic on the state a step leads to
WithinTraffic == InactiveCount(graphData') <= MaxInactive /\ Len(loops') <= MaxLoops

\* the links that fail: one with a parallel link, one without
FailingLinks == {"L1", "L5"}

NextTraffic ==
  \/ \E linkId \in FailingLinks, on \in BOOLEAN :
        SetLinkActive(linkId, on) /\ WithinTraffic
  \/ handleSendTraffic
  \/ updatePackets

SpecTraffic == InitTraffic /\ [][NextTraffic]_vars

(***************************************************************************)
(* SpecEdit: the topology edited from the state after mount. Clicks go to  *)
(* the first MaxTargets nodes and links of the topology, at most           *)
(* MaxInactive nodes are down, the prompt is answered with one of          *)
(* PromptAnswers and the generator resolves to one of GeneratedGraphs. No  *)
(* animation frame runs, so the one loop requested is always replaced.     *)
(***************************************************************************)
MaxTargets == 2

\* the digits of 1..MaxWeight (MaxWeight below 10), and texts that parseInt
\* refuses, truncates or reads as zero or less
PromptTexts ==
  { <<DigitChars[w + 1]>> : w \in 1..MaxWeight }
    \cup { <<>>, <<"a">>, <<"0">>, <<"-", "1">>, <<" ", "2", "x">>, <<"1", ".", "5">> }

PromptAnswers ==
  { [cancelled |-> TRUE, text |-> <<>>] }
    \cup { [cancelled |-> FALSE, text |-> t] : t \in PromptTexts }

\* a generated graph; its elements come without active flag, FALSE stands
\* for the missing field
PairGraph(target, weight) ==
  [nodes |-> << [id |-> "A", active |-> FALSE], [id |-> "B", active |-> FALSE] >>,
   links |-> << [id |-> "link-0", source |-> "A", target |-> target,
                 weight |-> weight, active |-> FALSE] >>]

EmptyGraph == [nodes |-> <<>>, links |-> <<>>]

\* what generateTopology resolves to: null, a graph without nodes, a sound
\* graph, a link to an unknown node, a weight of zero, a negative weight
GeneratedGraphs ==
  { [isNull |-> TRUE, graph |-> EmptyGraph], [isNull |-> FALSE, graph |-> EmptyGraph] }
    \cup { [isNull |-> FALSE, graph |-> PairGraph(t, w)] :
             t \in {"B", UnknownNode}, w \in {1, 0, -1} }

ClickNodes == {graphData.nodes[i].id : i \in DOMAIN graphData.nodes \cap 1..MaxTargets}

ClickLinks == {graphData.links[i].id : i \in DOMAIN graphData.links \cap 1..MaxTargets}

InitEdit ==
  /\ graphData = INITIAL_GRAPH
  /\ algorithm = DIJKSTRA
  /\ startNode = "A"
  /\ endNode = NULL
  /\ editMode = FALSE
  /\ steps = runAlgorithm(algorithm, graphData, startNode)
  /\ currentStepIndex = 0
  /\ isPlaying = FALSE
  /\ packets = <<>>
  /\ loops = << [graphData |-> graphData, algorithm |-> algorithm, started |-> FALSE] >>

NextEdit ==
  \/ onToggleEditMode
  \/ \E nodeId \in ClickNodes, isShift \in BOOLEAN :
        handleNodeClick(nodeId, isShift) /\ InactiveCount(graphData') <= MaxInactive
  \/ \E linkId \in ClickLinks, answer \in PromptAnswers : handleLinkClick(linkId, answer)
  \/ \E generated \in GeneratedGraphs : handleGenerateTopology(generated)

SpecEdit == InitEdit /\ [][NextEdit]_vars

(***************************************************************************)
(* SpecPlayback: the playback controls, the interval of the playback       *)
(* timer, and what re-runs the algorithm beside them: a click on one of    *)
(* the first MaxTargets nodes (the start node outside edit mode, a failure *)
(* in edit mode) and the choice of the algorithm.  SpecPlaybackLive adds   *)
(* that an interval which stays set keeps firing.                          *)
(***************************************************************************)
InitPlayback == InitEdit

NextPlayback ==
  \/ onPlayPause
  \/ onNext
  \/ onPrev
  \/ onReset
  \/ PlaybackTimer
  \/ onToggleEditMode
  \/ \E nodeId \in ClickNodes :
        handleNodeClick(nodeId, FALSE) /\ InactiveCount(graphData') <= MaxInactive
  \/ \E type \in AlgorithmType : onAlgorithmChange(type)

SpecPlayback == InitPlayback /\ [][NextPlayback]_vars

SpecPlaybackLive == SpecPlayback /\ WF_vars(PlaybackTimer)

(***************************************************************************)
(* SpecReconstruct: shortestPathData applied to a step whose previous map  *)
(* was not written by the engine.  The topology is the part of the unit    *)
(* diamond on its first MaxNodes nodes; the step on display has any        *)
(* previous map over these nodes, cycles included, and every distance 1 or *)
(* every distance INFINITY; a shift-click chooses the end node.            *)
(***************************************************************************)
MaxNodes == 3

SubDiamond ==
  LET full == Diamond(UnitWeights)
      ids  == {NodeNames[i] : i \in 1..MaxNodes}
  IN  [nodes |-> SubSeq(full.nodes, 1, MaxNodes),
       links |-> SelectSeq(full.links, LAMBDA l : l.source \in ids /\ l.target \in ids)]

InitReconstruct ==
  /\ graphData = SubDiamond
  /\ algorithm = DIJKSTRA
  /\ startNode \in NodeIds(graphData)
  /\ endNode = NULL
  /\ editMode = FALSE
  /\ \E prevMap \in [NodeIds(graphData) -> NodeIds(graphData) \cup {NULL}],
        cost \in {1, INFINITY} :
        steps = << Step(0, "complete", [id \in NodeIds(graphData) |-> cost], prevMap,
                        <<>>, <<>>, <<>>) >>
  /\ currentStepIndex = 0
  /\ isPlaying = FALSE
  /\ packets = <<>>
  /\ loops = << [graphData |-> graphData, algorithm |-> algorithm, started |-> FALSE] >>

NextReconstruct ==
  \E nodeId \in NodeIds(graphData) : handleNodeClick(nodeId, TRUE)

SpecReconstruct == InitReconstruct /\ [][NextReconstruct]_vars

(***************************************************************************)
(* Reference definitions used by the properties.                           *)
(***************************************************************************)
SetMin(S) == CHOOSE x \in S : \A y \in S : x <= y

NodeActive(data, id) == \E i \in DOMAIN data.nodes : data.nodes[i].id = id /\ data.nodes[i].active

\* the total weights of the simple paths from cur to target over active
\* links and active nodes that avoid the nodes of seen
RECURSIVE PathCosts(_, _, _, _)
PathCosts(data, cur, target, seen) ==
  IF cur = target THEN {0}
  ELSE UNION { LET l == data.links[i]
                   other == IF l.source = cur THEN l.target ELSE l.source
               IN  IF l.active /\ (l.source = cur \/ l.target = cur)
                      /\ other \notin seen /\ NodeActive(data, other)
                   THEN { l.weight + c : c \in PathCosts(data, other, target, seen \cup {other}) }
                   ELSE {}
               : i \in DOMAIN data.links }

\* the cost of the cheapest active simple path, INFINITY when there is none
ShortestCost(data, start, target) ==
  LET costs == PathCosts(data, start, target, {start})
  IN  IF costs = {} THEN INFINITY ELSE SetMin(costs)

\* the same, with every cost of INFINITY or more reported as INFINITY
CappedShortestCost(data, start, target) ==
  LET c == ShortestCost(data, start, target)
  IN  IF c >= INFINITY THEN INFINITY ELSE c

Ran == steps # <<>>
FinalStep == Last(steps)
StartIsActive == startNode \in activeNodeIds(graphData)

(***************************************************************************)
(* C1. For every topology and every active start node, under either       *)
(* variant, the final step's distance of every node is the minimum total   *)
(* weight over the active simple paths from the start, or INFINITY when    *)
(* there is no such path.                                                  *)
(***************************************************************************)
C1_FinalDistancesAreShortest ==
  (Ran /\ StartIsActive) =>
     \A n \in NodeIds(graphData) :
        FinalStep.distances[n] =
          IF NodeActive(graphData, n) THEN ShortestCost(graphData, startNode, n) ELSE INFINITY

\* C1 as amended: the same, where a cheapest path of cost INFINITY (9999) or
\* more is reported as INFINITY
C1_FinalDistancesAreCappedShortest ==
  (Ran /\ StartIsActive) =>
     \A n \in NodeIds(graphData) :
        FinalStep.distances[n] =
          IF NodeActive(graphData, n) THEN CappedShortestCost(graphData, startNode, n)
          ELSE INFINITY

\* a run in which one node has a cheapest path of INFINITY or more and
\* another one, several hops away, has active paths of different costs
C1_Witness ==
  /\ Ran /\ StartIsActive
  /\ \E n \in NodeIds(graphData) :
        /\ NodeActive(graphData, n)
        /\ PathCosts(graphData, startNode, n, {startNode}) # {}
        /\ ShortestCost(graphData, startNode, n) >= INFINITY
        /\ FinalStep.distances[n] = INFINITY
  /\ \E m \in NodeIds(graphData) :
        /\ FinalStep.distances[m] < INFINITY
        /\ FinalStep.previous[m] \notin {NULL, startNode}
        /\ Cardinality(PathCosts(graphData, startNode, m, {startNode})) >= 2

(***************************************************************************)
(* C2. For every topology with positive weights, every pattern of active   *)
(* nodes and links and every start node, the final steps of the Dijkstra   *)
(* run and of the Bellman-Ford run have the same distances for every node. *)
(***************************************************************************)
OtherAlgorithm == IF algorithm = DIJKSTRA THEN BELLMAN_FORD ELSE DIJKSTRA

C2_VariantsAgree ==
  Ran => \A n \in NodeIds(graphData) :
            FinalStep.distances[n]
              = Last(runAlgorithm(OtherAlgorithm, graphData, startNode)).distances[n]

\* a Bellman-Ford run over four active nodes that needed every one of its
\* passes to reach a node three hops away
C2_Witness ==
  /\ Ran /\ StartIsActive /\ algorithm = BELLMAN_FORD
  /\ FinalStep.distances = Last(runDijkstra(graphData, startNode)).distances
  /\ \A i \in DOMAIN steps : steps[i].description # "converged"
  /\ \E n \in NodeIds(graphData) :
        /\ FinalStep.distances[n] < INFINITY
        /\ FinalStep.previous[n] # NULL
        /\ FinalStep.previous[FinalStep.previous[n]] \notin {NULL, startNode}

(***************************************************************************)
(* C3. When startNodeId names an inactive node or a node id the topology   *)
(* does not know, either variant returns exactly one step: stepIndex 0,    *)
(* every distance INFINITY, every previous null, activeNodes, activeLinks  *)
(* and visitedNodes empty; no selection or relaxation step is produced.    *)
(***************************************************************************)
C3_InvalidStartGivesOneStep ==
  (Ran /\ ~StartIsActive) =>
     /\ Len(steps) = 1
     /\ steps[1].stepIndex = 0
     /\ steps[1].description \notin {"select", "relax"}
     /\ DOMAIN steps[1].distances = NodeIds(graphData)
     /\ \A n \in NodeIds(graphData) :
           steps[1].distances[n] = INFINITY /\ steps[1].previous[n] = NULL
     /\ steps[1].activeNodes = <<>>
     /\ steps[1].activeLinks = <<>>
     /\ steps[1].visitedNodes = <<>>

\* a run from a node of the topology that is switched off while an active
\* link joins it to an active node
C3_Witness ==
  /\ Ran
  /\ startNode \in NodeIds(graphData)
  /\ ~NodeActive(graphData, startNode)
  /\ \E i \in DOMAIN graphData.links :
        LET l == graphData.links[i]
        IN  /\ l.active
            /\ startNode \in {l.source, l.target}
            /\ \E n \in {l.source, l.target} \ {startNode} : NodeActive(graphData, n)
  /\ Len(steps) = 1

(***************************************************************************)
(* C4. In every step of every run, distances and previous have an entry    *)
(* for every node of the topology; every inactive node has distance        *)
(* INFINITY and previous null; no inactive node and no inactive link is    *)
(* listed in activeNodes, activeLinks or visitedNodes.                     *)
(***************************************************************************)
ActiveLinkIds(data) == {data.links[i].id : i \in {j \in DOMAIN data.links : data.links[j].active}}

C4_EveryStepCoversAllNodes ==
  \A i \in DOMAIN steps :
     /\ DOMAIN steps[i].distances = NodeIds(graphData)
     /\ DOMAIN steps[i].previous = NodeIds(graphData)
     /\ \A n \in NodeIds(graphData) :
           ~NodeActive(graphData, n) =>
              steps[i].distances[n] = INFINITY /\ steps[i].previous[n] = NULL
     /\ \A k \in DOMAIN steps[i].activeNodes :
           NodeActive(graphData, steps[i].activeNodes[k])
     /\ \A k \in DOMAIN steps[i].visitedNodes :
           NodeActive(graphData, steps[i].visitedNodes[k])
     /\ \A k \in DOMAIN steps[i].activeLinks :
           steps[i].activeLinks[k] \in ActiveLinkIds(graphData)

\* a run with relaxation steps over a topology in which an inactive node has
\* an active link to a node the run reaches
C4_Witness ==
  /\ Ran /\ StartIsActive
  /\ \E i \in DOMAIN steps : steps[i].description = "relax"
  /\ \E i \in DOMAIN graphData.links :
        LET l == graphData.links[i]
        IN  /\ l.active
            /\ \E n \in {l.source, l.target} :
                  /\ ~NodeActive(graphData, n)
                  /\ \E m \in {l.source, l.target} \ {n} : FinalStep.distances[m] < INFINITY

(***************************************************************************)
(* C5. On the initial topology with everything active, the Dijkstra run    *)
(* from A ends with distances A:0, B:3, C:2, D:8, E:10, F:13.              *)
(***************************************************************************)
OnInitialGraph ==
  Ran /\ graphData = INITIAL_GRAPH /\ startNode = "A" /\ algorithm = DIJKSTRA

C5_InitialGraphDistances ==
  OnInitialGraph =>
     FinalStep.distances =
       ("A" :> 0) @@ ("B" :> 3) @@ ("C" :> 2) @@ ("D" :> 8) @@ ("E" :> 10) @@ ("F" :> 13)

\* the completed Dijkstra run from A on the initial topology
C5_Witness ==
  OnInitialGraph /\ FinalStep.description = "complete" /\ Len(FinalStep.visitedNodes) = 6

(***************************************************************************)
(* C6. On the initial topology with everything active, the Dijkstra run    *)
(* from A ends with the previous map B:C, C:A, D:B, E:D, F:D (A: none).    *)
(***************************************************************************)
C6_InitialGraphPrevious ==
  OnInitialGraph =>
     FinalStep.previous =
       ("A" :> NULL) @@ ("B" :> "C") @@ ("C" :> "A") @@ ("D" :> "B") @@ ("E" :> "D")
         @@ ("F" :> "D")

\* C6 as amended: the previous map is B:C, C:A, D:B, E:C, F:E (A: none)
C6_InitialGraphPreviousAmended ==
  OnInitialGraph =>
     FinalStep.previous =
       ("A" :> NULL) @@ ("B" :> "C") @@ ("C" :> "A") @@ ("D" :> "B") @@ ("E" :> "C")
         @@ ("F" :> "E")

\* the run on the initial topology, in which E (10 through C, 10 through D)
\* and F (14 through D, 13 through E) are each relaxed
C6_Witness ==
  /\ OnInitialGraph
  /\ \E i \in DOMAIN steps :
        steps[i].description = "relax" /\ steps[i].activeNodes = <<"D", "F">>
  /\ \E i \in DOMAIN steps :
        steps[i].description = "relax" /\ steps[i].activeNodes = <<"E", "F">>

(***************************************************************************)
(* C8. For the final step of a run over any topology of the data model     *)
(* (several links may join one pair of nodes) and every target whose       *)
(* distance is below INFINITY, the weights of the links of the             *)
(* reconstructed pathIds sum to distances[target].                         *)
(***************************************************************************)
LinkById(data, linkId) ==
  data.links[CHOOSE i \in DOMAIN data.links : data.links[i].id = linkId]

RECURSIVE SumWeights(_, _)
SumWeights(data, pathIds) ==
  IF pathIds = <<>> THEN 0
  ELSE LinkById(data, Head(pathIds)).weight + SumWeights(data, Tail(pathIds))

\* the path the UI shows for target t on the final step of the run
FinalPath(t) == reconstruct(TRUE, FinalStep, startNode, t, graphData)

C8_PathWeightsSumToCost ==
  Ran => \A t \in NodeIds(graphData) :
            FinalStep.distances[t] < INFINITY =>
               SumWeights(graphData, FinalPath(t).pathIds) = FinalStep.distances[t]

(***************************************************************************)
(* C9. For every reachable target, reconstruction returns nodePath from    *)
(* the start node to the target, both included, and linkPath from the      *)
(* start node to the target (the i-th link joins the i-th and (i+1)-th     *)
(* node of nodePath), with cost equal to distances[target].                *)
(***************************************************************************)
Joins(data, linkId, a, b) ==
  LET l == LinkById(data, linkId) IN {l.source, l.target} = {a, b}

NodePathIsStartToTarget(r, t) ==
  /\ r.kind = "path"
  /\ r.cost = FinalStep.distances[t]
  /\ Len(r.nodePath) >= 1
  /\ r.nodePath[1] = startNode
  /\ r.nodePath[Len(r.nodePath)] = t
  /\ \A i \in 2..Len(r.nodePath) : FinalStep.previous[r.nodePath[i]] = r.nodePath[i - 1]
  /\ Len(r.pathIds) = Len(r.nodePath) - 1

C9_PathsAreStartToTarget ==
  Ran => \A t \in NodeIds(graphData) :
            FinalStep.distances[t] < INFINITY =>
               LET r == FinalPath(t)
               IN  /\ NodePathIsStartToTarget(r, t)
                   /\ \A i \in DOMAIN r.pathIds :
                         Joins(graphData, r.pathIds[i], r.nodePath[i], r.nodePath[i + 1])

\* C9 as amended: nodePath runs from the start node to the target, and
\* linkPath from the target back to the start node: with k links, the i-th
\* link joins the (k-i+1)-th and (k-i+2)-th node of nodePath
C9_LinkPathIsTargetToStart ==
  Ran => \A t \in NodeIds(graphData) :
            FinalStep.distances[t] < INFINITY =>
               LET r == FinalPath(t)
                   k == Len(r.pathIds)
               IN  /\ NodePathIsStartToTarget(r, t)
                   /\ \A i \in DOMAIN r.pathIds :
                         Joins(graphData, r.pathIds[i],
                               r.nodePath[k - i + 1], r.nodePath[k - i + 2])

\* a target three links away from the start node, reconstructed
C9_Witness ==
  /\ Ran
  /\ \E t \in NodeIds(graphData) :
        /\ FinalStep.distances[t] < INFINITY
        /\ Len(FinalPath(t).nodePath) = 4
        /\ Len(FinalPath(t).pathIds) = 3

\* the links joining a and b, in either direction
LinksBetween(a, b) ==
  {i \in DOMAIN graphData.links : Joins(graphData, graphData.links[i].id, a, b)}

\* p travels on the only link between its two ends, and that link is down
OnBrokenLink(p) ==
  /\ p.status = "moving"
  /\ \E i \in DOMAIN graphData.links :
        /\ LinksBetween(p.currentNodeId, p.nextHopId) = {i}
        /\ graphData.links[i].id = p.currentEdgeId
        /\ ~graphData.links[i].active

\* C10: a packet whose link (the only one between currentNodeId and
\* nextHopId) was deactivated before it arrives gets status lost in the tick
\* in which its progress reaches 1, whether or not nextHopId is its target
\* and whether or not another route exists from nextHopId.
C10_BrokenLinkLosesPacket ==
  \A i \in DOMAIN packets : \A delta \in 0..MaxDelta :
    (OnBrokenLink(packets[i])
       /\ packets[i].progress + packets[i].speed * delta >= ProgressUnits)
    => UpdatePacket(packets[i], delta, algorithm, graphData).status = "lost"

\* a step that is an animation frame acting on the packets: the topology is
\* kept and packets change without any being added
FrameStep ==
  /\ graphData' = graphData
  /\ algorithm' = algorithm
  /\ packets' # packets
  /\ Len(packets') <= Len(packets)

\* C11: every animation frame advances and routes the packets with the
\* topology and the algorithm that are current at that frame; no callback
\* that captured an earlier topology acts on them (at most one loop is live).
C11_TickUsesCurrentTopology ==
  [][FrameStep =>
       /\ Len(loops) <= 1
       /\ \E delta \in 0..MaxDelta :
             packets' = TickPackets(packets, delta, algorithm, graphData)]_vars

\* the algorithm and topology a tick can run with: those of the live loops
\* and the current ones
TickViews ==
  {[algorithm |-> loops[i].algorithm, graphData |-> loops[i].graphData] : i \in DOMAIN loops}
    \cup {[algorithm |-> algorithm, graphData |-> graphData]}

PacketStatuses == {"moving", "delivered", "lost"}

\* C12: a status only changes from moving to delivered or to lost; a tick
\* leaves a packet that is not moving unchanged and removes a packet in the
\* tick in which it becomes delivered or lost, so every packet of the packet
\* set is moving.
C12_OnlyMovingPacketsRemain ==
  /\ \A i \in DOMAIN packets : packets[i].status = "moving"
  /\ \A v \in TickViews, delta \in 0..MaxDelta :
        LET mapped == MapPackets(packets, delta, v.algorithm, v.graphData)
            after == TickPackets(packets, delta, v.algorithm, v.graphData)
            ended == {i \in DOMAIN mapped : mapped[i].status # "moving"}
        IN  /\ \A i \in DOMAIN mapped : mapped[i].status \in PacketStatuses
            /\ \A i \in ended, later \in 0..MaxDelta :
                  UpdatePacket(mapped[i], later, v.algorithm, v.graphData) = mapped[i]
            /\ ended # {} =>
                  \A j \in DOMAIN after, i \in ended : after[j].id # mapped[i].id

\* some packets of a request were removed by a tick, and one of the others
\* gets lost in a coming tick
C12_Witness ==
  /\ Len(packets) \in 1..(SpawnCount - 1)
  /\ \E i \in DOMAIN packets, delta \in 0..MaxDelta :
        UpdatePacket(packets[i], delta, algorithm, graphData).status = "lost"

Unreachable(data, from, to) ==
  \/ ~NodeActive(data, from)
  \/ ~NodeActive(data, to)
  \/ CappedShortestCost(data, from, to) = INFINITY

\* the first node after from on the path the engine computes to target
ComputedNextHop(type, data, from, target) ==
  Last(PathBack(Last(runAlgorithm(type, data, from)).previous, target, from, <<>>))

ActiveLinkBetween(data, a, b) ==
  \E i \in DOMAIN data.links :
     data.links[i].active /\ {data.links[i].source, data.links[i].target} = {a, b}

\* C14: a packet that arrives at a node that is not its target becomes lost
\* if and only if the target is unreachable from that node over the active
\* topology or no active link joins that node and the computed next hop;
\* otherwise it keeps moving from the arrival node to that next hop on an
\* active link joining the two, with progress 0.
C14_LostOnlyWithoutRoute ==
  \A i \in DOMAIN packets :
     LET p == packets[i]
         q == Arrive(p, algorithm, graphData)
         cut == Unreachable(graphData, p.nextHopId, p.targetId)
         hop == ComputedNextHop(algorithm, graphData, p.nextHopId, p.targetId)
     IN  p.nextHopId # p.targetId =>
           /\ q.status = "lost" <=>
                 (cut \/ ~ActiveLinkBetween(graphData, p.nextHopId, hop))
           /\ q.status # "lost" =>
                 /\ q.status = "moving"
                 /\ q.currentNodeId = p.nextHopId
                 /\ q.nextHopId = hop
                 /\ q.progress = 0
                 /\ \E j \in DOMAIN graphData.links :
                       /\ graphData.links[j].id = q.currentEdgeId
                       /\ graphData.links[j].active
                       /\ Joins(graphData, q.currentEdgeId, q.currentNodeId, q.nextHopId)

\* the packets a traffic request added in this step
Added == SubSeq(packets', Len(packets) + 1, Len(packets'))

\* a step in which a traffic request added packets
SendStep ==
  /\ Len(packets') > Len(packets)
  /\ SubSeq(packets', 1, Len(packets)) = packets

\* C15: a traffic request adds at most 5 packets, and none when fewer than
\* two nodes are active; every packet added joins two different active
\* nodes, the target reachable from the source, and starts at the source
\* towards the first node of the shortest path, on an active link joining
\* the two, with progress 0, a speed in [0.5, 1) and status moving.
C15_RequestAddsRoutablePackets ==
  [][SendStep =>
       /\ Len(Added) <= SpawnCount
       /\ Cardinality(activeNodeIds(graphData)) >= 2
       /\ \A i \in DOMAIN Added :
             LET p == Added[i]
             IN  /\ p.sourceId # p.targetId
                 /\ NodeActive(graphData, p.sourceId)
                 /\ NodeActive(graphData, p.targetId)
                 /\ ~Unreachable(graphData, p.sourceId, p.targetId)
                 /\ p.currentNodeId = p.sourceId
                 /\ p.nextHopId =
                      ComputedNextHop(algorithm, graphData, p.sourceId, p.targetId)
                 /\ \E j \in DOMAIN graphData.links :
                       /\ graphData.links[j].id = p.currentEdgeId
                       /\ graphData.links[j].active
                       /\ Joins(graphData, p.currentEdgeId, p.sourceId, p.nextHopId)
                 /\ p.progress = 0
                 /\ ProgressUnits <= 2 * p.speed /\ p.speed < ProgressUnits
                 /\ p.status = "moving"]_vars

\* C16: the packet tick and the traffic request change only the packet
\* set: across a step that changes the packets, the nodes, the links, every
\* active flag and every weight are kept, and so are the algorithm, the
\* start node and the trace that runAlgorithm returned.
C16_TickAndRequestKeepTopology ==
  [][packets' # packets =>
       /\ graphData' = graphData
       /\ algorithm' = algorithm
       /\ startNode' = startNode
       /\ steps' = steps
       /\ steps = runAlgorithm(algorithm, graphData, startNode)]_vars

\* packets on their way after a request and a frame, with a link down
C16_Witness ==
  /\ packets # <<>>
  /\ \E i \in DOMAIN packets : packets[i].progress > 0
  /\ \E i \in DOMAIN graphData.links : ~graphData.links[i].active

\* a link of graph ends at a node the graph does not have, or weighs
\* nothing or less
Malformed(graph) ==
  \E i \in DOMAIN graph.links :
     \/ graph.links[i].source \notin NodeIds(graph)
     \/ graph.links[i].target \notin NodeIds(graph)
     \/ graph.links[i].weight <= 0

\* C17: a generated topology with a link to an unknown node or with a
\* weight that is not positive is rejected as a whole: the topology, the
\* start node and the packet set stay as they were.
C17_MalformedTopologyRejected ==
  [][\A generated \in GeneratedGraphs :
        (~generated.isNull /\ Malformed(generated.graph)
           /\ handleGenerateTopology(generated))
        => UNCHANGED <<graphData, startNode, packets>>]_vars

ToggleLink(links, linkId) ==
  [i \in DOMAIN links |->
     IF links[i].id = linkId THEN [links[i] EXCEPT !.active = ~links[i].active]
     ELSE links[i]]

\* C19: in edit mode a click on a link toggles the active flag of that link
\* and a click on a node the active flag of that node; every other node
\* and link is left as it was.
C19_EditClicksToggle ==
  [][editMode =>
       /\ \A linkId \in ClickLinks, answer \in PromptAnswers :
             handleLinkClick(linkId, answer) =>
               graphData' = [graphData EXCEPT !.links = ToggleLink(graphData.links, linkId)]
       /\ \A nodeId \in ClickNodes :
             handleNodeClick(nodeId, FALSE) =>
               graphData' = [graphData EXCEPT !.nodes = ToggleNode(graphData.nodes, nodeId)]
    ]_vars

\* C18: a firing of the playback timer below the last step adds one to the
\* index and keeps playing, a firing at the last step keeps the index and
\* stops playing; the index always names a step; and once nothing but the
\* timer acts any more, playback stops for good
TimerStep ==
  PlaybackTimer =>
    /\ UNCHANGED <<graphData, algorithm, startNode, endNode, editMode, steps, packets, loops>>
    /\ IF currentStepIndex < Len(steps) - 1
       THEN currentStepIndex' = currentStepIndex + 1 /\ isPlaying' = isPlaying
       ELSE currentStepIndex' = currentStepIndex /\ ~isPlaying'

IndexInRange == currentStepIndex \in 0..(Len(steps) - 1)

C18_TimerStopsAtLastStep ==
  /\ [][TimerStep]_vars
  /\ []IndexInRange
  /\ (<>[][PlaybackTimer]_vars) => <>[](~isPlaying)

\* C18 as stated: playback stops for good once the algorithm is not re-run
\* any more, whatever else the user does
C18_StopsWithoutReruns ==
  /\ [][TimerStep]_vars
  /\ []IndexInRange
  /\ (<>[][steps' = steps]_vars) => <>[](~isPlaying)

\* the timer has run a simulation of several steps to its last step and
\* is about to stop it
C18_Witness ==
  /\ isPlaying
  /\ Len(steps) > 2
  /\ currentStepIndex = Len(steps) - 1

\* C20: reconstruction follows at most as many predecessor pointers as the
\* topology has nodes, and when it has followed that many without reaching
\* the start node the result is Unreachable, without cost and path
Shown ==
  reconstruct(TRUE, steps[currentStepIndex + 1], startNode, endNode, graphData)

Walked ==
  WalkBack(graphData, steps[currentStepIndex + 1].previous, startNode,
           [curr |-> endNode, pathIds |-> <<>>, nodePath |-> <<endNode>>, safety |-> 0])

BoundExhausted == Walked.safety = Len(graphData.nodes) /\ Walked.curr # startNode

C20_ExhaustedBoundIsUnreachable ==
  (endNode # NULL /\ steps[currentStepIndex + 1].distances[endNode] < INFINITY) =>
     /\ Walked.safety <= Len(graphData.nodes)
     /\ BoundExhausted =>
          /\ Shown.kind = "unreachable"
          /\ Shown.pathIds = <<>>
          /\ Shown.nodePath = <<>>

(***************************************************************************)
(* C21. A weight edit that is cancelled, or whose text parseInt reads as   *)
(* no number, as zero or as a negative number, leaves the topology         *)
(* unchanged; an accepted edit changes the weight of the clicked link and  *)
(* nothing else, and the new weight is positive, so weights that are       *)
(* positive stay positive.                                                 *)
(***************************************************************************)
\* parseInt of every text that can be answered
Parsed == [text \in PromptTexts |-> parseInt(text)]

AllWeightsPositive(data) == \A i \in DOMAIN data.links : data.links[i].weight > 0

OnlyWeightChanged(linkId, newWeight) ==
  /\ graphData'.nodes = graphData.nodes
  /\ DOMAIN graphData'.links = DOMAIN graphData.links
  /\ \A i \in DOMAIN graphData.links :
        IF graphData.links[i].id = linkId
        THEN graphData'.links[i] = [graphData.links[i] EXCEPT !.weight = newWeight]
        ELSE graphData'.links[i] = graphData.links[i]

EditOutcome(linkId, answer, refused) ==
  IF refused THEN graphData' = graphData
  ELSE /\ Parsed[answer.text].value > 0
       /\ OnlyWeightChanged(linkId, Parsed[answer.text].value)
       /\ AllWeightsPositive(graphData) => AllWeightsPositive(graphData')

\* C21: every step has the outcome above for a click and an answer, or is
\* not that click with that answer
C21_EditsKeepWeightsPositive ==
  [][\A linkId \in ClickLinks, answer \in PromptAnswers :
       \/ EditOutcome(linkId, answer,
                        \/ answer.cancelled
                        \/ Parsed[answer.text].isNaN
                        \/ Parsed[answer.text].value <= 0)
       \/ ~(editMode /\ handleLinkClick(linkId, answer))]_vars

\* a text with a character that no number has
NonNumeric(text) ==
  \E i \in DOMAIN text : ~IsDigit(text[i]) /\ text[i] \notin {" ", "-", "+", "."}

\* C21 as stated: every non-numeric text is refused
C21_NonNumericRefused ==
  [][\A linkId \in ClickLinks, answer \in PromptAnswers :
       \/ EditOutcome(linkId, answer,
                        \/ answer.cancelled
                        \/ NonNumeric(answer.text)
                        \/ Parsed[answer.text].isNaN
                        \/ Parsed[answer.text].value <= 0)
       \/ ~(editMode /\ handleLinkClick(linkId, answer))]_vars

\* an accepted edit has changed the weight of the first link of the initial
\* topology and left the rest as it was
C21_Witness ==
  /\ editMode
  /\ Len(graphData.links) = Len(INITIAL_GRAPH.links)
  /\ graphData.links[1].weight # INITIAL_GRAPH.links[1].weight
  /\ \A i \in DOMAIN graphData.links :
        i # 1 => graphData.links[i] = INITIAL_GRAPH.links[i]
  /\ graphData.nodes = INITIAL_GRAPH.nodes

(***************************************************************************)
(* C22. From one step of a run to the next no distance increases, and the  *)
(* previous of a node changes only where its distance strictly decreases.  *)
(***************************************************************************)
C22_DistancesOnlyDecrease ==
  Ran => \A k \in 1..(Len(steps) - 1), n \in NodeIds(graphData) :
            /\ steps[k + 1].distances[n] <= steps[k].distances[n]
            /\ steps[k + 1].previous[n] # steps[k].previous[n]
                 => steps[k + 1].distances[n] < steps[k].distances[n]

\* a run in which one node got a second, cheaper predecessor, and in which
\* another neighbour offers a node its final distance without being its
\* predecessor
C22_Witness ==
  /\ Ran
  /\ \E k \in 1..(Len(steps) - 1), n \in NodeIds(graphData) :
        /\ steps[k].previous[n] # NULL
        /\ steps[k + 1].previous[n] # steps[k].previous[n]
  /\ \E i \in DOMAIN graphData.links, n \in NodeIds(graphData), p \in NodeIds(graphData) :
        /\ graphData.links[i].active
        /\ Joins(graphData, graphData.links[i].id, p, n)
        /\ NodeActive(graphData, p) /\ NodeActive(graphData, n)
        /\ FinalStep.distances[n] < INFINITY
        /\ FinalStep.distances[p] + graphData.links[i].weight = FinalStep.distances[n]
        /\ FinalStep.previous[n] \notin {p, NULL}

(***************************************************************************)
(* C23. Every selection step of a Dijkstra run lists one node: an active   *)
(* node not visited before the step, below INFINITY, of minimal distance   *)
(* among the active nodes not visited before, and the first such node in   *)
(* the node list; when the run ends no active unvisited node is below      *)
(* INFINITY.                                                               *)
(***************************************************************************)
\* the positions in the node list of the active nodes not in visited
UnvisitedAt(visited) ==
  {i \in DOMAIN graphData.nodes :
     graphData.nodes[i].active /\ graphData.nodes[i].id \notin Range(visited)}

SelectionSteps == {k \in DOMAIN steps : steps[k].description = "select"}

C23_SelectsFirstNearest ==
  (Ran /\ algorithm = DIJKSTRA) =>
     /\ \A k \in SelectionSteps :
          LET before == UnvisitedAt(steps[k - 1].visitedNodes)
              dist == steps[k].distances
          IN  /\ Len(steps[k].activeNodes) = 1
              /\ \E i \in before :
                    /\ graphData.nodes[i].id = steps[k].activeNodes[1]
                    /\ dist[graphData.nodes[i].id] < INFINITY
                    /\ \A j \in before :
                          /\ dist[graphData.nodes[i].id] <= dist[graphData.nodes[j].id]
                          /\ dist[graphData.nodes[j].id] = dist[graphData.nodes[i].id] => i <= j
              /\ steps[k].visitedNodes = Append(steps[k - 1].visitedNodes, steps[k].activeNodes[1])
     /\ \A i \in UnvisitedAt(FinalStep.visitedNodes) :
           FinalStep.distances[graphData.nodes[i].id] >= INFINITY

\* a Dijkstra run that selected a node while a later node of the list was
\* unvisited at the same distance, and ended with an active node unreached
C23_Witness ==
  /\ Ran /\ algorithm = DIJKSTRA
  /\ \E k \in SelectionSteps :
        \E i, j \in UnvisitedAt(steps[k - 1].visitedNodes) :
           /\ i < j
           /\ graphData.nodes[i].id = steps[k].activeNodes[1]
           /\ steps[k].distances[graphData.nodes[j].id] = steps[k].distances[graphData.nodes[i].id]
  /\ UnvisitedAt(FinalStep.visitedNodes) # {}

(***************************************************************************)
(* C24. A Bellman-Ford run from an active start node makes at most         *)
(* (number of active nodes - 1) passes over the active links and stops     *)
(* before that only after a pass without relaxation, for which it emits    *)
(* one converged step that repeats the distances and previous of the step  *)
(* before it; the trace ends with a complete step without activeNodes and  *)
(* activeLinks, and no step has visitedNodes.                              *)
(***************************************************************************)
StepsOfKind(kind) == {k \in DOMAIN steps : steps[k].description = kind}

\* the place of a relaxation in a pass: the links in order, each from
\* source to target and then from target to source
PassPosition(step) ==
  LET links == ActiveLinks(graphData)
      li == CHOOSE i \in DOMAIN links : links[i].id = step.activeLinks[1]
  IN  2 * li + (IF step.activeNodes[1] = links[li].source THEN 0 ELSE 1)

\* within a pass the relaxations come in rising position, so a pass begins
\* at the first relaxation and wherever the position does not rise
RelaxingPasses ==
  LET relax == StepsOfKind("relax")
  IN  IF relax = {} THEN 0
      ELSE 1 + Cardinality({k \in relax : k + 1 \in relax
                              /\ PassPosition(steps[k + 1]) <= PassPosition(steps[k])})

PassesMade == RelaxingPasses + Cardinality(StepsOfKind("converged"))

BellmanFordTrace ==
  /\ PassesMade <= Cardinality(activeNodeIds(graphData)) - 1
  /\ StepsOfKind("converged") = {}
       => PassesMade = Cardinality(activeNodeIds(graphData)) - 1
  /\ \A k \in StepsOfKind("converged") :
        /\ k = Len(steps) - 1
        /\ steps[k].distances = steps[k - 1].distances
        /\ steps[k].previous = steps[k - 1].previous
        /\ steps[k].activeNodes = <<>> /\ steps[k].activeLinks = <<>>
  /\ FinalStep.description = "complete"
  /\ FinalStep.activeNodes = <<>> /\ FinalStep.activeLinks = <<>>
  /\ \A k \in DOMAIN steps : steps[k].visitedNodes = <<>>

C24_BellmanFordPasses ==
  (Ran /\ algorithm = BELLMAN_FORD /\ StartIsActive) => BellmanFordTrace

\* C24 as stated: for every start node
C24_AlwaysEndsComplete ==
  (Ran /\ algorithm = BELLMAN_FORD) => BellmanFordTrace

\* a run on four active nodes that relaxed in each of its three passes and
\* so ended without a converged step
C24_Witness ==
  /\ Ran /\ algorithm = BELLMAN_FORD /\ StartIsActive
  /\ Cardinality(activeNodeIds(graphData)) = 4
  /\ RelaxingPasses = 3
  /\ StepsOfKind("converged") = {}

(***************************************************************************)
(* C25. Every link id that reconstruction puts in the link path is an      *)
(* active link joining two consecutive nodes of the node path; a hop       *)
(* without an active link adds no id, and the node path is still the full  *)
(* path from the start node to the target.                                 *)
(***************************************************************************)
Hops(r) == 1..(Len(r.nodePath) - 1)

C25_LinkPathHasActiveLinksOnly ==
  Ran => \A t \in NodeIds(graphData) :
            FinalStep.distances[t] < INFINITY =>
               LET r == FinalPath(t)
               IN  /\ r.kind = "path"
                   /\ r.nodePath[1] = startNode
                   /\ r.nodePath[Len(r.nodePath)] = t
                   /\ \A h \in Hops(r) : FinalStep.previous[r.nodePath[h + 1]] = r.nodePath[h]
                   /\ \A i \in DOMAIN r.pathIds :
                         /\ LinkById(graphData, r.pathIds[i]).active
                         /\ \E h \in Hops(r) :
                               Joins(graphData, r.pathIds[i], r.nodePath[h], r.nodePath[h + 1])
                   /\ \A h \in Hops(r) :
                         ActiveLinkBetween(graphData, r.nodePath[h], r.nodePath[h + 1])
                         \/ \A i \in DOMAIN r.pathIds :
                               ~Joins(graphData, r.pathIds[i], r.nodePath[h], r.nodePath[h + 1])

(***************************************************************************)
(* C26. In a Dijkstra trace visitedNodes only grows, each active node is   *)
(* selected at most once, the distance and previous of a node stay as they *)
(* are from the step in which it enters visitedNodes, and the visitedNodes *)
(* of the final step are the active nodes whose final distance is below    *)
(* INFINITY.                                                               *)
(***************************************************************************)
IsPrefix(a, b) == Len(a) <= Len(b) /\ \A i \in DOMAIN a : a[i] = b[i]

C26_VisitedNodesAreFinal ==
  (Ran /\ algorithm = DIJKSTRA) =>
     /\ \A k \in 1..(Len(steps) - 1) :
           IsPrefix(steps[k].visitedNodes, steps[k + 1].visitedNodes)
     /\ \A n \in activeNodeIds(graphData) :
           Cardinality({k \in SelectionSteps : steps[k].activeNodes = <<n>>}) <= 1
     /\ \A k \in DOMAIN steps, j \in DOMAIN steps :
           k < j => \A n \in Range(steps[k].visitedNodes) :
                       /\ steps[j].distances[n] = steps[k].distances[n]
                       /\ steps[j].previous[n] = steps[k].previous[n]
     /\ Cardinality(Range(FinalStep.visitedNodes)) = Len(FinalStep.visitedNodes)
     /\ Range(FinalStep.visitedNodes) =
          {n \in activeNodeIds(graphData) : FinalStep.distances[n] < INFINITY}

\* a Dijkstra run that visited three nodes, relaxed after the first visit,
\* and left an active node unvisited
C26_Witness ==
  /\ Ran /\ algorithm = DIJKSTRA
  /\ Len(FinalStep.visitedNodes) = 3
  /\ \E k \in StepsOfKind("relax") : Len(steps[k].visitedNodes) >= 2
  /\ activeNodeIds(graphData) \ Range(FinalStep.visitedNodes) # {}

(***************************************************************************)
(* C27. In every step of a run, previous of the start node is none, a node *)
(* with a previous is below INFINITY, and its previous pointers lead to    *)
(* the start node without passing a node twice; so the backward walk of    *)
(* the packet code from a reachable target ends, and the last node it      *)
(* collects, the next hop, is a neighbour of the start node.               *)
(***************************************************************************)
\* n and the nodes its previous pointers lead to, at most fuel of them
RECURSIVE Chain(_, _, _)
Chain(prevMap, n, fuel) ==
  IF n = NULL \/ fuel = 0 THEN <<>>
  ELSE <<n>> \o Chain(prevMap, prevMap[n], fuel - 1)

NoRepeat(seq) == Cardinality(Range(seq)) = Len(seq)

C27_PreviousLeadsToStart ==
  Ran =>
    /\ \A k \in DOMAIN steps :
          /\ startNode \in NodeIds(graphData) => steps[k].previous[startNode] = NULL
          /\ \A n \in NodeIds(graphData) :
                steps[k].previous[n] # NULL =>
                   LET c == Chain(steps[k].previous, n, Len(graphData.nodes) + 1)
                   IN  /\ steps[k].distances[n] < INFINITY
                       /\ Last(c) = startNode
                       /\ NoRepeat(c)
    /\ \A t \in NodeIds(graphData) \ {startNode} :
          FinalStep.distances[t] < INFINITY =>
             LET path == PathBack(FinalStep.previous, t, startNode, <<>>)
             IN  /\ Len(path) >= 1
                 /\ path[1] = t
                 /\ NoRepeat(path)
                 /\ startNode \notin Range(path)
                 /\ FinalStep.previous[Last(path)] = startNode
                 /\ ActiveLinkBetween(graphData, startNode, Last(path))

\* a run whose backward walk from some target collects three nodes
C27_Witness ==
  /\ Ran
  /\ \E t \in NodeIds(graphData) \ {startNode} :
        /\ FinalStep.distances[t] < INFINITY
        /\ Len(PathBack(FinalStep.previous, t, startNode, <<>>)) = 3

(***************************************************************************)
(* C28. Every distance of every step is in 0..INFINITY; an active node     *)
(* whose cheapest active path from the start costs INFINITY or more stays  *)
(* at INFINITY without previous, is never selected by Dijkstra and never   *)
(* relaxed from by Bellman-Ford, is shown as unreachable by the path       *)
(* reconstruction, gets no packet from a traffic request and loses the     *)
(* packet that asks for a route to it.                                     *)
(***************************************************************************)
BeyondSentinel(n) ==
  LET costs == PathCosts(graphData, startNode, n, {startNode})
  IN  NodeActive(graphData, n) /\ costs # {} /\ SetMin(costs) >= INFINITY

\* the place of node id among the active nodes, as handleSendTraffic draws it
ActiveIndex(id) ==
  LET activeNodes == SelectSeq(graphData.nodes, LAMBDA n : n.active)
  IN  CHOOSE i \in DOMAIN activeNodes : activeNodes[i].id = id

\* a packet for target n that reaches the start node over the link li
PacketArrivingAtStart(n, li) ==
  LET l == graphData.links[li]
      from == IF l.source = startNode THEN l.target ELSE l.source
  IN  [id |-> 1, sourceId |-> from, targetId |-> n, currentEdgeId |-> l.id,
       currentNodeId |-> from, nextHopId |-> startNode, progress |-> 0, speed |-> 1,
       status |-> "moving"]

C28_SentinelBoundsDistances ==
  Ran =>
    /\ \A k \in DOMAIN steps, n \in NodeIds(graphData) :
          steps[k].distances[n] \in 0..INFINITY
    /\ StartIsActive =>
         \A n \in NodeIds(graphData) :
            BeyondSentinel(n) =>
              /\ \A k \in DOMAIN steps :
                    /\ steps[k].distances[n] = INFINITY
                    /\ steps[k].previous[n] = NULL
                    /\ n \notin Range(steps[k].visitedNodes)
                    /\ steps[k].description = "relax" => steps[k].activeNodes[1] # n
              /\ FinalPath(n).kind = "unreachable"
              /\ Attempt([srcIndex |-> ActiveIndex(startNode), tgtIndex |-> ActiveIndex(n),
                          speed |-> 1],
                         SelectSeq(graphData.nodes, LAMBDA m : m.active),
                         algorithm, graphData, <<>>, <<>>) = <<>>
              /\ \A li \in DOMAIN graphData.links :
                    (graphData.links[li].active
                       /\ startNode \in {graphData.links[li].source, graphData.links[li].target})
                    => UpdatePacket(PacketArrivingAtStart(n, li), ProgressUnits,
                                    algorithm, graphData).status = "lost"

\* a run in which the only active paths to a neighbour of the start node
\* cost INFINITY or more, while another node is reached
C28_Witness ==
  /\ Ran /\ StartIsActive
  /\ \E n \in NodeIds(graphData) :
        BeyondSentinel(n) /\ ActiveLinkBetween(graphData, startNode, n)
  /\ \E n \in NodeIds(graphData) \ {startNode} : FinalStep.distances[n] < INFINITY

(***************************************************************************)
(* C29. In the steps of a Dijkstra run and in the final step of a          *)
(* Bellman-Ford run, a node n with previous p has the distance of p plus   *)
(* the weight of an active link joining p and n; in the other steps of a   *)
(* Bellman-Ford run it has at least that.                                  *)
(***************************************************************************)
\* the weights of the active links joining p and n
HopWeights(p, n) ==
  {graphData.links[i].weight : i \in {j \in DOMAIN graphData.links :
      graphData.links[j].active
        /\ {graphData.links[j].source, graphData.links[j].target} = {p, n}}}

\* every previous pointer of step is matched by the distances exactly
Consistent(step) ==
  \A n \in NodeIds(graphData) :
     step.previous[n] # NULL =>
        \E w \in HopWeights(step.previous[n], n) :
           step.distances[n] = step.distances[step.previous[n]] + w

C29_PreviousMatchesDistances ==
  Ran =>
    /\ algorithm = DIJKSTRA => \A k \in DOMAIN steps : Consistent(steps[k])
    /\ Consistent(FinalStep)
    /\ \A k \in DOMAIN steps, n \in NodeIds(graphData) :
          steps[k].previous[n] # NULL =>
             \E w \in HopWeights(steps[k].previous[n], n) :
                steps[k].distances[n] >= steps[k].distances[steps[k].previous[n]] + w

\* the path shown for target t on step k of the run
ShownPath(k, t) == reconstruct(TRUE, steps[k], startNode, t, graphData)

\* C29 as stated: in every step of either variant, and with the weights of
\* the highlighted links summing to the distance shown
C29_EveryStepConsistent ==
  Ran => \A k \in DOMAIN steps :
            /\ Consistent(steps[k])
            /\ \A t \in NodeIds(graphData) :
                  steps[k].distances[t] < INFINITY =>
                     SumWeights(graphData, ShownPath(k, t).pathIds) = steps[k].distances[t]

\* a Bellman-Ford run with a step in which a node is further than its
\* previous and the link between them say
C29_Witness ==
  /\ Ran /\ algorithm = BELLMAN_FORD
  /\ \E k \in DOMAIN steps : ~Consistent(steps[k])

\* C30: after a tick every packet of the set has 0 <= progress < 1 and is
\* a packet of the set before it with the same id, sourceId, targetId and
\* speed; it is either on the same link, no further back, or at the start
\* of a link that leaves the node its link led to, which is not its target,
\* with progress 0 whatever the elapsed time was.
C30_TickMovesAtMostOneLink ==
  [][FrameStep =>
       \A j \in DOMAIN packets' :
          LET q == packets'[j]
          IN  /\ q.progress \in 0..(ProgressUnits - 1)
              /\ \E i \in DOMAIN packets :
                    LET p == packets[i]
                    IN  /\ q.id = p.id
                        /\ q.sourceId = p.sourceId
                        /\ q.targetId = p.targetId
                        /\ q.speed = p.speed
                        /\ \/ /\ q.currentNodeId = p.currentNodeId
                              /\ q.nextHopId = p.nextHopId
                              /\ q.currentEdgeId = p.currentEdgeId
                              /\ q.progress >= p.progress
                           \/ /\ q.currentNodeId = p.nextHopId
                              /\ q.currentNodeId # q.targetId
                              /\ q.nextHopId # q.currentNodeId
                              /\ q.progress = 0]_vars

\* a packet that has crossed a link and moved on is about to pass the end
\* of its second link, by more than the link is long, and to take a third
C30_Witness ==
  \E i \in DOMAIN packets, delta \in 1..MaxDelta :
     /\ packets[i].currentNodeId # packets[i].sourceId
     /\ packets[i].progress > 0
     /\ packets[i].progress + packets[i].speed * delta > ProgressUnits
     /\ UpdatePacket(packets[i], delta, algorithm, graphData).status = "moving"
     /\ UpdatePacket(packets[i], delta, algorithm, graphData).progress = 0

====
